---- MODULE Spec2Model ----
(***************************************************************************)
(* A model of cc (src/cc.c), a cat replacement: the command line           *)
(* (parse_global_flags), the line transformer (process_line_buffer), the   *)
(* stream, mapped and poll-follow readers, the strategy selection of main, *)
(* and the buffered standard output.                                       *)
(*                                                                         *)
(* Byte strings (file contents, line buffers, output) are kept run-length  *)
(* encoded: a sequence of runs [b |-> byte, n |-> count], no two adjacent  *)
(* runs of the same byte, every count >= 1.  The encoding is canonical, so *)
(* equality of encodings is equality of byte strings, and it lets the      *)
(* model hold lines longer than BUFSIZE and files of MMAP_THRESHOLD bytes  *)
(* with the program's real constants.                                      *)
(***************************************************************************)
EXTENDS Integers, Sequences, FiniteSets, TLC

VARIABLES
    opts,         \* Options, as parse_global_flags leaves them
    argv,         \* the file names collected by parse_global_flags
    fs,           \* the file system: name -> content, or NoFile
    i,            \* main's loop index (1-based)
    pc,           \* the program's position
    cx,           \* line_no, stdout's stream, stderr's log, transformer calls
    rd,           \* the running reader's locals
    stop_follow,  \* the flag handle_sigint sets
    handler,      \* whether signal(SIGINT, handle_sigint) has been called
    env,          \* the command line, and what the environment has done
    unit          \* the inputs and results of the readers run side by side

vars == <<opts, argv, fs, i, pc, cx, rd, stop_follow, handler, env, unit>>

----------------------------------------------------------------------------
(* Program constants *)

BUFSIZE == 8192
MMAP_THRESHOLD == 1024 * 1024

\* The size of standard output's buffer.  setvbuf(stdout, NULL, _IOFBF,
\* BUFSIZE) passes no buffer, and the C library then allocates its own of
\* the device's block size (st_blksize: 4096 for a file, a pipe, /dev/full;
\* 1024 for a terminal) whatever size it was asked for.
BLKSIZE == 4096
TTY_BLKSIZE == 1024

EXIT_SUCCESS == 0
EXIT_FAILURE == 1

NUL == 0
TAB == 9
NL == 10
SPACE == 32
DOLLAR == 36
DIGIT0 == 48
CARET_OFFSET == 64
QUESTION == 63
LETTER_I == 73
CARET == 94
DEL == 127
NUM_WIDTH == 6
SQUEEZE_LIMIT == 1

\* The name "-": standard input.
STDIN == 0

----------------------------------------------------------------------------
(* Bounds of the model *)

\* The longest file content, in runs, that Init draws.
MaxRuns == 3
\* The most file arguments of one invocation.
MaxFiles == 2
\* The most appends the environment makes to followed files.
MaxAppends == 2
\* The most stat or fseek faults the environment injects.
MaxFaults == 1

----------------------------------------------------------------------------
(* Run-length encoded byte strings *)

Min(a, b) == IF a <= b THEN a ELSE b

\* The element of a one-element set.  A local variable x of the code with
\* the value v is written The({ e : x \in {v} }): e with x the value of v.
The(S) == CHOOSE y \in S : TRUE

R(b, n) == [b |-> b, n |-> n]

\* strlen-style length in bytes.
RECURSIVE Size(_)
Size(d) == IF d = <<>> THEN 0 ELSE Head(d).n + Size(Tail(d))

\* Concatenation (what appending to a buffer or a file does).
Cat(x, y) ==
    IF x = <<>> THEN y
    ELSE IF y = <<>> THEN x
    ELSE IF x[Len(x)].b = y[1].b
         THEN SubSeq(x, 1, Len(x) - 1)
              \o <<R(y[1].b, x[Len(x)].n + y[1].n)>> \o Tail(y)
         ELSE x \o y

\* The bytes from offset k on.
RECURSIVE Drop(_, _)
Drop(d, k) ==
    IF k <= 0 \/ d = <<>> THEN d
    ELSE IF Head(d).n <= k THEN Drop(Tail(d), k - Head(d).n)
    ELSE <<R(Head(d).b, Head(d).n - k)>> \o Tail(d)

\* The first k bytes.
RECURSIVE Take(_, _)
Take(d, k) ==
    IF k <= 0 \/ d = <<>> THEN <<>>
    ELSE IF Head(d).n <= k THEN <<Head(d)>> \o Take(Tail(d), k - Head(d).n)
    ELSE <<R(Head(d).b, k)>>

\* The offset of the first byte c, or Size(d) when there is none.
RECURSIVE IndexOf(_, _)
IndexOf(d, c) ==
    IF d = <<>> THEN 0
    ELSE IF Head(d).b = c THEN 0
    ELSE Head(d).n + IndexOf(Tail(d), c)

\* A plain byte sequence, encoded.
RECURSIVE FromBytes(_)
FromBytes(s) ==
    IF s = <<>> THEN <<>> ELSE Cat(<<R(Head(s), 1)>>, FromBytes(Tail(s)))

----------------------------------------------------------------------------
(* Standard output: a fully buffered stream with a buffer of the device's    *)
(* block size, over a device that accepts bytes up to its capacity           *)
(* (unlimited, or full after cap).                                           *)

\* so.data: the bytes the device has taken and, after them, the buffered
\* ones; so.sent: how many the device has taken; so.putting: whether the
\* stream has a write buffer yet (it gets one with the first byte that does
\* not fit); so.dev: the device.
NewStream(dev) == [data |-> <<>>, sent |-> 0, putting |-> FALSE, dev |-> dev]

\* A file or a pipe that takes everything, a terminal, and a device that is
\* full after n bytes.
Healthy == [limited |-> FALSE, cap |-> 0, blksize |-> BLKSIZE]
Terminal == [limited |-> FALSE, cap |-> 0, blksize |-> TTY_BLKSIZE]
FullAfter(n) == [limited |-> TRUE, cap |-> n, blksize |-> BLKSIZE]

\* n bytes b.
Bytes(b, n) == IF n <= 0 THEN <<>> ELSE <<R(b, n)>>

\* The buffered bytes, the size of the buffer, and the room left in it.
Pending(s) == Size(s.data) - s.sent
BufSize(s) == s.dev.blksize
Space(s) == IF s.putting THEN BufSize(s) - Pending(s) ELSE 0

DevRoom(s, want) ==
    IF s.dev.limited THEN Min(want, s.dev.cap - s.sent) ELSE want

\* write(2) of the next `want` bytes of s.data.  When the device takes
\* fewer, the call fails and the bytes it did not take are dropped.
Transmit(s, want) ==
    The({
        IF took = n
        THEN [s |-> [t EXCEPT !.sent = @ + n], fail |-> FALSE]
        ELSE [s |-> [t EXCEPT !.data = Take(@, t.sent + took),
                              !.sent = @ + took],
              fail |-> TRUE] :
        t \in {s}, n \in {want}, took \in {DevRoom(s, want)} })

\* The largest multiple of the buffer's size within n.
whole_blocks(s, n) == n - (n % BufSize(s))

\* fwrite/fputs/putchar/printf of the bytes d.  What fits in the buffer is
\* copied there.  If bytes are left, the buffer is written out, then the
\* whole blocks among the bytes left are written directly, and the rest is
\* buffered; a failing write ends the call with the rest not buffered.
stdio_write(s, d) ==
    The({
        IF Size(buf) <= room
        THEN [s |-> [f EXCEPT !.data = Cat(@, buf)], fail |-> FALSE]
        ELSE The({
            IF flushed.fail THEN flushed
            ELSE The({
                IF w.fail THEN w
                ELSE [s |-> [w.s EXCEPT !.data = Cat(@, Drop(rest, do_write))],
                      fail |-> FALSE] :
                w \in {Transmit([flushed.s EXCEPT
                                    !.data = Cat(@, Take(rest, do_write))],
                                do_write)} }) :
            flushed \in {Transmit([f EXCEPT !.data = Cat(@, Take(buf, room)),
                                            !.putting = TRUE],
                                  Pending(f) + room)},
            rest \in {Drop(buf, room)},
            do_write \in {whole_blocks(s, Size(buf) - room)} }) :
        f \in {s}, buf \in {d}, room \in {Space(s)} })

\* fflush(stdout): write out the buffer.
stdio_flush(s) == Transmit(s, Pending(s))

\* What has reached the device.
Written(s) == Take(s.data, s.sent)

----------------------------------------------------------------------------
(* Options *)

global_defaults ==
    [flag_num |-> FALSE, flag_nnb |-> FALSE, flag_squeeze |-> FALSE,
     flag_ends |-> FALSE, flag_tabs |-> FALSE, flag_nonprinting |-> FALSE,
     flag_follow |-> FALSE, squeeze_limit |-> SQUEEZE_LIMIT]

tab_repr == <<R(CARET, 1), R(LETTER_I, 1)>>
end_marker == <<R(DOLLAR, 1)>>

\* A word of the command line: kind is "--", "long" (any other word that
\* starts with "--"), "flags" (any other word of '-' and more) or "name"
\* ("-" alone and every other word); option is a long option's text, letters
\* are the characters after the '-' of a flags word, and name is the file
\* the word names when it is taken as a file name.
Word(kind, option, letters, name) ==
    [kind |-> kind, option |-> option, letters |-> letters, name |-> name]

FlagsWord(letters) == Word("flags", "", letters, STDIN)
LongWord(option) == Word("long", option, <<>>, STDIN)
NameWord(name) == Word("name", "", <<>>, name)
DashDash == Word("--", "", <<>>, STDIN)

\* The letters whose case of the switch sets a flag and breaks.
FlagLetters == {"n", "b", "s", "e", "T", "v", "A", "f"}

\* The switch of parse_global_flags for one such letter.
set_flag(o, l) ==
    CASE l = "n" -> [o EXCEPT !.flag_num = TRUE]
      [] l = "b" -> [o EXCEPT !.flag_nnb = TRUE]
      [] l = "s" -> [o EXCEPT !.flag_squeeze = TRUE]
      [] l = "e" -> [o EXCEPT !.flag_ends = TRUE]
      [] l = "T" -> [o EXCEPT !.flag_tabs = TRUE]
      [] l = "v" -> [o EXCEPT !.flag_nonprinting = TRUE]
      [] l = "A" -> [o EXCEPT !.flag_nonprinting = TRUE, !.flag_tabs = TRUE,
                              !.flag_ends = TRUE]
      [] l = "f" -> [o EXCEPT !.flag_follow = TRUE]

\* What parse_global_flags comes to: the options and file names so far, and
\* halt: "none" when it returns, else what made it call exit, with the
\* letter or option in arg.
Parsed(o, files, halt, arg) ==
    [opts |-> o, files |-> files, halt |-> halt, arg |-> arg]

\* The loop over the letters of one flags word.
RECURSIVE parse_letters(_, _, _)
parse_letters(letters, o, files) ==
    IF letters = <<>> THEN Parsed(o, files, "none", "")
    ELSE IF Head(letters) = "h" THEN Parsed(o, files, "help", "h")
    ELSE IF Head(letters) = "V" THEN Parsed(o, files, "version", "V")
    ELSE IF Head(letters) \notin FlagLetters
         THEN Parsed(o, files, "unknown flag", Head(letters))
    ELSE The({ parse_letters(Tail(letters), o1, files) :
               o1 \in {set_flag(o, Head(letters))} })

\* The loop over the words of the command line.
RECURSIVE parse_words(_, _, _, _)
parse_words(words, o, files, parsing_flags) ==
    IF words = <<>>
    THEN Parsed(o, IF files = <<>> THEN <<STDIN>> ELSE files, "none", "")
    ELSE IF parsing_flags /\ Head(words).kind = "--"
         THEN parse_words(Tail(words), o, files, FALSE)
    ELSE IF parsing_flags /\ Head(words).kind = "long"
         THEN (IF Head(words).option = "--help"
               THEN Parsed(o, files, "help", "--help")
               ELSE IF Head(words).option = "--version"
               THEN Parsed(o, files, "version", "--version")
               ELSE Parsed(o, files, "unknown option", Head(words).option))
    ELSE IF parsing_flags /\ Head(words).kind = "flags"
         THEN The({
                  IF p.halt # "none" THEN p
                  ELSE parse_words(Tail(words), p.opts, files, TRUE) :
              p \in {parse_letters(Head(words).letters, o, files)} })
    ELSE The({ parse_words(Tail(words), o, fl, parsing_flags) :
               fl \in {Append(files, Head(words).name)} })

\* parse_global_flags(argc, argv, &opts, &files), opts holding o.
parse_global_flags(words, o) == parse_words(words, o, <<>>, TRUE)

use_text(o) ==
    o.flag_num \/ o.flag_nnb \/ o.flag_squeeze
    \/ o.flag_ends \/ o.flag_tabs \/ o.flag_nonprinting

----------------------------------------------------------------------------
(* The line transformer *)

\* A line on standard error.  The log keeps, with the message, the file
\* being processed and how many transformer calls had been made.
say(c, msg, arg) ==
    [c EXCEPT !.errs = Append(@, [file |-> c.file, msg |-> msg, arg |-> arg,
                                  at |-> Len(c.calls)])]

\* log_error(msg, 0): one diagnostic on standard error.
log_error(c, msg) == say(c, msg, "")

\* usage(): the help text, on standard error.
usage(c) == say(c, "Usage: cc [OPTION]... [FILE]...", "")

\* One stdio call on standard output whose result the code does not look
\* at.  wfail counts the stdio calls that failed.
stdio_call(c, d) ==
    The({
        [c EXCEPT !.so = w.s, !.wfail = IF w.fail THEN @ + 1 ELSE @] :
        w \in {stdio_write(c.so, d)} })

\* version(): printf("cc version 1.1\n").
version_text ==
    FromBytes(<<99, 99, 32, 118, 101, 114, 115, 105, 111, 110, 32,
                49, 46, 49, 10>>)

version(c) == stdio_call(c, version_text)

\* What exit() and the return from main do to standard output: the buffer
\* is written out, and the process ends with the status.
exit(c, status) ==
    The({
        [c EXCEPT !.so = w.s, !.wfail = IF w.fail THEN @ + 1 ELSE @,
                  !.status = status] :
        w \in {stdio_flush(c.so)} })

\* The decimal digits of n >= 0.
RECURSIVE Digits(_)
Digits(n) ==
    IF n < 10 THEN <<DIGIT0 + n>>
    ELSE Append(Digits(n \div 10), DIGIT0 + (n % 10))

\* printf("%6d\t", n).
line_format(n) ==
    LET ds == Digits(n)
        pad == IF Len(ds) < NUM_WIDTH THEN <<R(SPACE, NUM_WIDTH - Len(ds))>>
               ELSE <<>>
    IN  Cat(Cat(pad, FromBytes(ds)), <<R(TAB, 1)>>)

\* The stdio calls of one iteration of the slow path's loop, for the byte
\* c: the bytes each fputs or putchar writes, in order.
show_byte(c, o) ==
    IF c = TAB /\ o.flag_tabs THEN <<tab_repr>>
    ELSE IF c = NL
         THEN (IF o.flag_ends THEN <<end_marker, <<R(NL, 1)>>>>
               ELSE << <<R(NL, 1)>> >>)
    ELSE IF o.flag_nonprinting /\ (c < SPACE \/ c = DEL)
         THEN (IF c = DEL THEN << <<R(CARET, 1), R(QUESTION, 1)>> >>
               ELSE << <<R(CARET, 1)>>, <<R(c + CARET_OFFSET, 1)>> >>)
    ELSE << <<R(c, 1)>> >>

\* The calls ds, one after the other.
RECURSIVE stdio_calls(_, _)
stdio_calls(c, ds) ==
    IF ds = <<>> THEN c
    ELSE The({ stdio_calls(c1, Tail(ds)) :
               c1 \in {stdio_call(c, Head(ds))} })

\* n iterations of the loop, each making the calls ds: those of the first
\* half of the iterations, then those of the rest.
RECURSIVE repeat_calls(_, _, _)
repeat_calls(c, ds, n) ==
    IF n <= 0 THEN c
    ELSE IF n = 1 THEN stdio_calls(c, ds)
    ELSE The({ repeat_calls(c1, ds, n - (n \div 2)) :
               c1 \in {repeat_calls(c, ds, n \div 2)} })

\* n iterations of the loop, each one putchar(b), one after the other.
\* The putchars that find room in the buffer only fill it; the one after
\* them writes the buffer out first, and is lost with the buffer's bytes
\* when that fails.
RECURSIVE putchar_few(_, _, _)
putchar_few(c, b, n) ==
    The({
        IF n <= room
        THEN [c EXCEPT !.so.data = Cat(@, Bytes(b, n))]
        ELSE The({ putchar_few(c1, b, n - room - 1) :
                   c1 \in {stdio_call([c EXCEPT !.so.data =
                                          Cat(@, Bytes(b, room))],
                                      Bytes(b, 1))} }) :
        room \in {Space(c.so)} })

\* n iterations of the loop, each one putchar(b); a long run as its first
\* half and then the rest.
RECURSIVE putchar_run(_, _, _)
putchar_run(c, b, n) ==
    IF n <= 2 * BufSize(c.so) THEN putchar_few(c, b, n)
    ELSE The({ putchar_run(c1, b, n - (n \div 2)) :
               c1 \in {putchar_run(c, b, n \div 2)} })

\* The iterations of the slow path's loop over a run of equal bytes.
show_run(run, o, c) ==
    The({
        IF Len(ds) = 1 /\ Size(ds[1]) = 1
        THEN putchar_run(c, ds[1][1].b, run.n)
        ELSE repeat_calls(c, ds, run.n) :
        ds \in {show_byte(run.b, o)} })

is_blank_line(line) == Size(line) = 1 /\ line[1].b = NL

numbered(line, o) == o.flag_num \/ (o.flag_nnb /\ ~is_blank_line(line))

\* A variant of number_line that advances the counter on every call.
number_line_every_call(line, o, c) ==
    IF numbered(line, o)
    THEN The({
             [c1 EXCEPT !.line_no = @ + 1] :
        c1 \in {stdio_call(c0, line_format(c0.line_no)) : c0 \in {c}} })
    ELSE [c EXCEPT !.line_no = @ + 1]

\* The number printed before the line, and the counter's increment.
number_line(line, o, c) ==
    IF numbered(line, o)
    THEN The({
             [c1 EXCEPT !.line_no = @ + 1] :
        c1 \in {stdio_call(c0, line_format(c0.line_no)) : c0 \in {c}} })
    ELSE c

fast_path(o) == ~o.flag_tabs /\ ~o.flag_nonprinting /\ ~o.flag_ends

\* The fast path: one fwrite, its failure logged.
write_fast(line, c) ==
    The({
        IF w.fail
        THEN log_error([c EXCEPT !.so = w.s, !.wfail = @ + 1],
                       "fwrite failed in fast path")
        ELSE [c EXCEPT !.so = w.s] :
        w \in {stdio_write(c.so, line)} })

\* The slow path: the loop over the bytes of the line, the results of its
\* putchar and fputs calls not looked at.
RECURSIVE write_slow(_, _, _)
write_slow(line, o, c) ==
    IF line = <<>> THEN c
    ELSE The({ write_slow(Tail(line), o, c1) :
               c1 \in {show_run(Head(line), o, c)} })

\* One call: c.calls records it (the file it came from, whether the buffer
\* was a blank line, its length, the number printed or 0 for none).
process_line_buffer(line, o, c) ==
    The({
        IF fast_path(o) THEN write_fast(line, c1)
        ELSE write_slow(line, o, c1) :
        c1 \in {number_line(line, o,
                   [c EXCEPT !.calls = Append(@,
                       [file |-> c.file, blank |-> is_blank_line(line),
                        len |-> Size(line),
                        num |-> IF numbered(line, o) THEN c.line_no
                                ELSE 0])])} })

\* The state the process starts in: line_no = 1, nothing written, nothing
\* on standard error, no exit status yet but the one main returns.
NewCx(dev) ==
    [line_no |-> 1, so |-> NewStream(dev), errs |-> <<>>, wfail |-> 0,
     calls |-> <<>>, file |-> 0, status |-> EXIT_SUCCESS]

----------------------------------------------------------------------------
(* The readers, one loop iteration each *)

\* fgets(buf, BUFSIZE, f) at offset pos: how many bytes it reads (0: NULL).
fgets_count(data, pos) ==
    The({
        Min(Min(IndexOf(rest, NL) + 1, Size(rest)), BUFSIZE - 1) :
        rest \in {Drop(data, pos)} })

\* Whether that fgets meets the end of the file: it stops short of a newline
\* and of BUFSIZE - 1 bytes only when a read returns nothing, and the stream
\* then holds its end-of-file indicator.
fgets_eof(data, pos) ==
    The({
        IndexOf(rest, NL) = Size(rest) /\ Size(rest) < BUFSIZE - 1 :
        rest \in {Drop(data, pos)} })

\* buf as the callers see it: strlen(buf) bytes, up to the first NUL.
fgets_line(data, pos) ==
    The({
        Take(chunk, IndexOf(chunk, NUL)) :
        chunk \in {Take(Drop(data, pos), fgets_count(data, pos))} })

\* A variant of the squeeze test that lets limit + 1 blank lines through.
text_squeezed_after_next(line, o, r) ==
    o.flag_squeeze /\ is_blank_line(line)
    /\ r.blank_count + 1 > o.squeeze_limit + 1

\* The squeeze test of process_text: TRUE when the line is dropped.
text_squeezed(line, o, r) ==
    o.flag_squeeze /\ is_blank_line(line)
    /\ r.blank_count + 1 > o.squeeze_limit

text_blank_count(line, o, r) ==
    IF ~o.flag_squeeze THEN r.blank_count
    ELSE IF is_blank_line(line) THEN r.blank_count + 1
    ELSE 0

\* One iteration of process_text's while loop (fgets returned a line).
text_step(data, o, r, c) ==
    The({
        LET r1 == [r EXCEPT !.pos = @ + fgets_count(data, r.pos),
                            !.blank_count = text_blank_count(line, o, r)]
        IN  [r |-> r1,
             c |-> IF text_squeezed(line, o, r) THEN c
                   ELSE process_line_buffer(line, o, c)] :
        line \in {fgets_line(data, r.pos)} })

\* The line process_file_mmap cuts at offset pos: up to and with the
\* next newline, or to the end of the view.
mmap_line(data, pos) ==
    The({
        Take(rest, Min(IndexOf(rest, NL) + 1, Size(rest))) :
        rest \in {Drop(data, pos)} })

mmap_squeezed(line, o, r) ==
    o.flag_squeeze /\ is_blank_line(line)
    /\ r.blank_count + 1 > o.squeeze_limit

mmap_blank_count(line, o, r) ==
    IF o.flag_squeeze /\ is_blank_line(line) THEN r.blank_count + 1 ELSE 0

\* One iteration of process_file_mmap's text loop.
mmap_step(data, o, r, c) ==
    The({
        LET r1 == [r EXCEPT !.pos = @ + Size(line),
                            !.blank_count = mmap_blank_count(line, o, r)]
        IN  [r |-> r1,
             c |-> IF mmap_squeezed(line, o, r) THEN c
                   ELSE process_line_buffer(line, o, c)] :
        line \in {mmap_line(data, r.pos)} })

\* The binary branch of process_file_mmap: one fwrite of the whole view.
mmap_binary(data, c) ==
    LET w == stdio_write(c.so, data)
    IN  IF w.fail
        THEN log_error([c EXCEPT !.so = w.s, !.wfail = @ + 1],
                       "fwrite failed in mmap binary mode")
        ELSE [c EXCEPT !.so = w.s]

\* A variant of process_binary's iteration that writes all but the last
\* byte it read.
binary_step_one_short(data, r, c) ==
    The({
        LET w == stdio_write(c.so, Take(buf, Size(buf) - 1))
        IN  [r |-> [r EXCEPT !.pos = @ + Size(buf)],
             c |-> [c EXCEPT !.so = w.s],
             brk |-> w.fail] :
        buf \in {Take(Drop(data, r.pos), BUFSIZE)} })

\* One iteration of process_binary's loop: fread of up to BUFSIZE bytes,
\* fwrite of them; brk when the write failed.
binary_step(data, r, c) ==
    The({
        LET w == stdio_write(c.so, buf)
        IN  [r |-> [r EXCEPT !.pos = @ + Size(buf)],
             c |-> IF w.fail
                   THEN log_error([c EXCEPT !.so = w.s, !.wfail = @ + 1],
                                  "fwrite failed in process_binary")
                   ELSE [c EXCEPT !.so = w.s],
             brk |-> w.fail] :
        buf \in {Take(Drop(data, r.pos), BUFSIZE)} })

\* One iteration of the drain loop of process_follow_text.
follow_step(data, o, r, c) ==
    The({
        LET at == r.pos + fgets_count(data, r.pos)
        IN  [r |-> [r EXCEPT !.pos = at, !.current_offset = at,
                             !.eof = fgets_eof(data, r.pos)],
             c |-> process_line_buffer(line, o, c)] :
        line \in {fgets_line(data, r.pos)} })

\* start_offset keeps the offset process_follow_text started from; eof is
\* the end-of-file indicator of the FILE, which fseek clears and which makes
\* fgets return NULL while it is set, whatever the file holds by then.
NewRd == [pos |-> 0, blank_count |-> 0, current_offset |-> 0,
          start_offset |-> 0, eof |-> FALSE]

----------------------------------------------------------------------------
(* main and the readers as a state machine *)

NoFile == [exists |-> FALSE, data |-> <<>>]
File(d) == [exists |-> TRUE, data |-> d]

fname == argv[i]

\* get_file_size: the size, or -1 with a diagnostic when fopen fails.
get_file_size(f) == IF f.exists THEN Size(f.data) ELSE -1

use_mmap_local(name, f) ==
    name # STDIN /\ get_file_size(f) >= MMAP_THRESHOLD

\* The reader main hands file `name` to.
strategy(name, f, o) ==
    IF o.flag_follow /\ name # STDIN THEN "follow"
    ELSE IF use_mmap_local(name, f) THEN "mmap"
    ELSE IF use_text(o) THEN "text"
    ELSE "binary"

\* The next file of main's loop.
next_file == /\ i' = i + 1
             /\ pc' = "main"

\* main up to its loop: the options start as global_defaults and
\* parse_global_flags reads the command line.  -h, -V, --help, --version and
\* an unknown flag or option end the process there; so does standard input
\* being a terminal when it is the only file.
Main_Parse ==
    /\ pc = "parse"
    /\ LET p == parse_global_flags(env.words, global_defaults)
       IN  /\ opts' = p.opts
           /\ argv' = p.files
           /\ IF p.halt = "help"
              THEN /\ cx' = exit(usage(cx), EXIT_SUCCESS)
                   /\ pc' = "halt"
              ELSE IF p.halt = "version"
              THEN /\ cx' = exit(version(cx), EXIT_SUCCESS)
                   /\ pc' = "halt"
              ELSE IF p.halt = "unknown flag"
              THEN /\ cx' = exit(say(cx, "Unknown flag: -", p.arg),
                                 EXIT_FAILURE)
                   /\ pc' = "halt"
              ELSE IF p.halt = "unknown option"
              THEN /\ cx' = exit(say(cx, "Unknown option: ", p.arg),
                                 EXIT_FAILURE)
                   /\ pc' = "halt"
              ELSE IF p.files = <<STDIN>> /\ env.stdin_tty
              THEN /\ cx' = exit(usage(cx), EXIT_SUCCESS)
                   /\ pc' = "halt"
              ELSE /\ cx' = cx
                   /\ pc' = "main"
    /\ UNCHANGED <<fs, i, rd, stop_follow, handler, env, unit>>

\* The diagnostics of process_follow_text when it cannot position the file it
\* has opened at its end.
InitialFaults ==
    { "Initial fseek failed in follow mode",
      "Initial ftell failed in follow mode" }

\* main's loop: pick the reader of argv[i] and open the file.  In follow
\* mode the file is positioned at its end before the handler is installed;
\* when fseek or ftell fails there, the failure is logged, the file is closed
\* and main goes on to the next file.
Main_Next ==
    /\ pc = "main"
    /\ i <= Len(argv)
    /\ LET f == fs[fname]
           how == strategy(fname, f, opts)
           c0 == [cx EXCEPT !.file = i]
           \* get_file_size logs when it cannot open a named file
           c1 == IF how # "follow" /\ fname # STDIN /\ ~f.exists
                 THEN log_error(c0, "get_file_size: fopen") ELSE c0
       IN  IF ~f.exists
           THEN /\ cx' = log_error(c1, "fopen")
                /\ next_file
                /\ UNCHANGED <<rd, handler, env>>
           ELSE IF how = "follow"
           THEN \* fseek(f, 0, SEEK_END); current_offset = ftell(f); signal()
                \/ /\ rd' = [NewRd EXCEPT !.pos = Size(f.data),
                                          !.current_offset = Size(f.data),
                                          !.start_offset = Size(f.data)]
                   /\ handler' = TRUE
                   /\ pc' = "follow"
                   /\ cx' = c1
                   /\ i' = i
                   /\ UNCHANGED env
                \/ /\ env.faults < MaxFaults
                   /\ env' = [env EXCEPT !.faults = @ + 1]
                   /\ \E msg \in InitialFaults : cx' = log_error(c1, msg)
                   /\ next_file
                   /\ UNCHANGED <<rd, handler>>
           ELSE IF how = "mmap" /\ Size(f.data) = 0
           THEN /\ cx' = c1
                /\ next_file
                /\ UNCHANGED <<rd, handler, env>>
           ELSE /\ rd' = NewRd
                /\ pc' = how
                /\ cx' = c1
                /\ i' = i
                /\ UNCHANGED <<handler, env>>
    /\ UNCHANGED <<opts, argv, fs, stop_follow, unit>>

\* After the loop: fflush(stdout), its result not looked at, and the
\* return of EXIT_SUCCESS.
Main_Exit ==
    /\ pc = "main"
    /\ i > Len(argv)
    /\ cx' = exit(cx, EXIT_SUCCESS)
    /\ pc' = "exit"
    /\ UNCHANGED <<opts, argv, fs, i, rd, stop_follow, handler, env, unit>>

\* process_text: one line, or the end of the file.
Text_Line ==
    /\ pc = "text"
    /\ fgets_count(fs[fname].data, rd.pos) > 0
    /\ LET t == text_step(fs[fname].data, opts, rd, cx)
       IN  /\ rd' = t.r
           /\ cx' = t.c
    /\ UNCHANGED <<opts, argv, fs, i, pc, stop_follow, handler, env, unit>>

Text_EOF ==
    /\ pc = "text"
    /\ fgets_count(fs[fname].data, rd.pos) = 0
    /\ next_file
    /\ UNCHANGED <<opts, argv, fs, cx, rd, stop_follow, handler, env, unit>>

\* process_binary: one buffer, or the end of the file.
Binary_Chunk ==
    /\ pc = "binary"
    /\ rd.pos < Size(fs[fname].data)
    /\ LET t == binary_step(fs[fname].data, rd, cx)
       IN  /\ rd' = t.r
           /\ cx' = t.c
           /\ IF t.brk THEN next_file ELSE UNCHANGED <<i, pc>>
    /\ UNCHANGED <<opts, argv, fs, stop_follow, handler, env, unit>>

Binary_EOF ==
    /\ pc = "binary"
    /\ rd.pos >= Size(fs[fname].data)
    /\ next_file
    /\ UNCHANGED <<opts, argv, fs, cx, rd, stop_follow, handler, env, unit>>

\* process_file_mmap in text mode: one line, or the end of the view.
Mmap_Line ==
    /\ pc = "mmap"
    /\ use_text(opts)
    /\ rd.pos < Size(fs[fname].data)
    /\ LET t == mmap_step(fs[fname].data, opts, rd, cx)
       IN  /\ rd' = t.r
           /\ cx' = t.c
    /\ UNCHANGED <<opts, argv, fs, i, pc, stop_follow, handler, env, unit>>

Mmap_Done ==
    /\ pc = "mmap"
    /\ use_text(opts)
    /\ rd.pos >= Size(fs[fname].data)
    /\ next_file
    /\ UNCHANGED <<opts, argv, fs, cx, rd, stop_follow, handler, env, unit>>

\* process_file_mmap in binary mode.
Mmap_Binary ==
    /\ pc = "mmap"
    /\ ~use_text(opts)
    /\ cx' = mmap_binary(fs[fname].data, cx)
    /\ next_file
    /\ UNCHANGED <<opts, argv, fs, rd, stop_follow, handler, env, unit>>

\* A variant of the loop exit that clears the flag it observed.
Follow_Stop_clears ==
    /\ pc = "follow"
    /\ stop_follow
    /\ stop_follow' = FALSE
    /\ next_file
    /\ UNCHANGED <<opts, argv, fs, cx, rd, handler, env, unit>>

\* process_follow_text: the test of while (!stop_follow), then stat and,
\* when the file has grown, fseek to current_offset.
Follow_Stop ==
    /\ pc = "follow"
    /\ stop_follow
    /\ next_file
    /\ UNCHANGED <<opts, argv, fs, cx, rd, stop_follow, handler, env, unit>>

\* A variant of the stat failure that gives the file up.
Follow_StatFails_aborts ==
    /\ pc = "follow"
    /\ ~stop_follow
    /\ env.faults < MaxFaults
    /\ env' = [env EXCEPT !.faults = @ + 1]
    /\ cx' = log_error(cx, "stat failed in follow mode")
    /\ next_file
    /\ UNCHANGED <<opts, argv, fs, rd, stop_follow, handler, unit>>

Follow_StatFails ==
    /\ pc = "follow"
    /\ ~stop_follow
    /\ env.faults < MaxFaults
    /\ env' = [env EXCEPT !.faults = @ + 1]
    /\ cx' = log_error(cx, "stat failed in follow mode")
    /\ UNCHANGED <<opts, argv, fs, i, pc, rd, stop_follow, handler, unit>>

Follow_Poll ==
    /\ pc = "follow"
    /\ ~stop_follow
    /\ pc' = IF Size(fs[fname].data) > rd.current_offset
             THEN "drain" ELSE "follow"
    /\ rd' = IF Size(fs[fname].data) > rd.current_offset
             THEN [rd EXCEPT !.pos = rd.current_offset, !.eof = FALSE]
             ELSE rd
    /\ UNCHANGED <<opts, argv, fs, i, cx, stop_follow, handler, env, unit>>

Follow_SeekFails ==
    /\ pc = "follow"
    /\ ~stop_follow
    /\ Size(fs[fname].data) > rd.current_offset
    /\ env.faults < MaxFaults
    /\ env' = [env EXCEPT !.faults = @ + 1]
    /\ cx' = log_error(cx, "fseek failed in follow mode")
    /\ next_file
    /\ UNCHANGED <<opts, argv, fs, rd, stop_follow, handler, unit>>

\* The drain loop: one line, or fgets returning NULL and the sleep.  fgets
\* returns NULL at the end of the file and, without reading, once the
\* stream's end-of-file indicator is set.
Follow_Line ==
    /\ pc = "drain"
    /\ ~rd.eof
    /\ fgets_count(fs[fname].data, rd.pos) > 0
    /\ LET t == follow_step(fs[fname].data, opts, rd, cx)
       IN  /\ rd' = t.r
           /\ cx' = t.c
    /\ UNCHANGED <<opts, argv, fs, i, pc, stop_follow, handler, env, unit>>

Follow_Sleep ==
    /\ pc = "drain"
    /\ rd.eof \/ fgets_count(fs[fname].data, rd.pos) = 0
    /\ pc' = "follow"
    /\ rd' = [rd EXCEPT !.eof = TRUE]
    /\ UNCHANGED <<opts, argv, fs, i, cx, stop_follow, handler, env, unit>>

\* handle_sigint, once the handler is installed.
handle_sigint ==
    /\ handler
    /\ pc \notin {"exit", "halt"}
    /\ ~stop_follow
    /\ stop_follow' = TRUE
    /\ env' = [env EXCEPT !.sigint_at = i]
    /\ UNCHANGED <<opts, argv, fs, i, pc, cx, rd, handler, unit>>

\* The environment appends d to the k-th argument's file while the
\* program runs in follow mode.
AppendSet ==
    { <<R(NL, 2)>>, <<R(97, 1), R(NL, 1)>>, <<R(97, BUFSIZE)>> }

Env_Append ==
    /\ opts.flag_follow
    /\ pc \notin {"parse", "exit", "halt"}
    /\ env.appends < MaxAppends
    /\ \E k \in 1..Len(argv), d \in AppendSet :
          /\ argv[k] # STDIN
          /\ fs[argv[k]].exists
          /\ fs' = [fs EXCEPT ![argv[k]].data = Cat(@, d)]
    /\ env' = [env EXCEPT !.appends = @ + 1]
    /\ UNCHANGED <<opts, argv, i, pc, cx, rd, stop_follow, handler, unit>>

----------------------------------------------------------------------------
(* The inputs Init draws *)

\* The runs file contents are built from: blank-line runs, a short and a
\* buffer-sized stretch of text, a stretch that makes the file reach the
\* mapping threshold, and a NUL byte.
RunSet ==
    { R(NL, 1), R(NL, 2), R(NL, 4),
      R(97, 1), R(97, BUFSIZE), R(97, MMAP_THRESHOLD), R(NUL, 1) }

\* The byte strings of exactly k runs, and of at most k runs.
RECURSIVE DataOfLen(_)
DataOfLen(k) ==
    IF k <= 0 THEN { <<>> }
    ELSE UNION { { Append(d, r) :
                     r \in { x \in RunSet : d = <<>> \/ d[Len(d)].b # x.b } } :
                 d \in DataOfLen(k - 1) }

RECURSIVE Datas(_)
Datas(k) == IF k <= 0 THEN { <<>> } ELSE DataOfLen(k) \cup Datas(k - 1)

\* A file of at most k runs, or a name that cannot be opened.
Files(k) == { NoFile } \cup { File(d) : d \in Datas(k) }

\* The files of n arguments, of at most `budget` runs together.
RECURSIVE FileLists(_, _)
FileLists(n, budget) ==
    IF n = 0 THEN { <<>> }
    ELSE UNION { { <<f>> \o rest :
                     rest \in FileLists(n - 1, budget - Len(f.data)) } :
                 f \in Files(budget) }

Names == 0..MaxFiles

\* n arguments: the k-th is file k, and at most one is "-".
ArgLists(n) ==
    { a \in [1..n -> Names] :
        /\ \A k \in 1..n : a[k] \in {STDIN, k}
        /\ \A j, k \in 1..n : a[j] = a[k] => j = k }

\* The file system in which the k-th argument names the k-th file.
FileSystem(a, files) ==
    [nm \in Names |->
        IF \E k \in 1..Len(a) : a[k] = nm
        THEN files[CHOOSE k \in 1..Len(a) : a[k] = nm]
        ELSE IF nm = STDIN THEN File(<<>>) ELSE NoFile]

\* The flag words of the command line, without and with -f.
FlagWords ==
    { <<>>,
      <<FlagsWord(<<"n">>)>>, <<FlagsWord(<<"b">>)>>, <<FlagsWord(<<"s">>)>>,
      <<FlagsWord(<<"e">>)>>, <<FlagsWord(<<"T">>)>>, <<FlagsWord(<<"v">>)>>,
      <<FlagsWord(<<"A">>)>>,
      <<FlagsWord(<<"n", "s">>)>>, <<FlagsWord(<<"b">>), FlagsWord(<<"s">>)>>,
      <<FlagsWord(<<"n", "b">>)>>, <<FlagsWord(<<"s">>), FlagsWord(<<"e">>)>> }

FollowFlagWords ==
    { <<FlagsWord(<<"f">>)>>, <<FlagsWord(<<"f", "s">>)>>,
      <<FlagsWord(<<"n">>), FlagsWord(<<"f">>)>> }

\* The command line of the flag words and then the names a.
Command(flagwords, a) == flagwords \o [k \in DOMAIN a |-> NameWord(a[k])]

\* Command lines of other shapes: the flags and options that end the
\* process, names among and before the flags, words after "--", none at all.
OtherCommands ==
    { <<>>,
      <<FlagsWord(<<"n">>)>>,
      <<FlagsWord(<<"V">>)>>,
      <<FlagsWord(<<"n", "V">>), NameWord(1)>>,
      <<NameWord(1), FlagsWord(<<"h">>)>>,
      <<FlagsWord(<<"s", "x">>), NameWord(1)>>,
      <<LongWord("--help")>>,
      <<NameWord(1), LongWord("--version")>>,
      <<LongWord("--verbose"), NameWord(1)>>,
      <<NameWord(1), FlagsWord(<<"n">>), NameWord(STDIN)>>,
      <<DashDash, Word("flags", "", <<"n">>, 1)>>,
      <<FlagsWord(<<"e">>), DashDash, Word("long", "--help", <<>>, 1),
        Word("--", "", <<>>, 2)>> }

\* Standard output of the batch runs: a pipe or file that takes everything,
\* and a full device.  The follow runs and the other command lines also
\* write to a terminal.
Devices == { Healthy, FullAfter(0) }
FollowDevices == { Healthy, Terminal }

NoUnit == [data |-> <<>>, stream |-> <<>>, mapped |-> <<>>, line |-> <<>>]

\* The environment: the command line, whether standard input is a
\* terminal, and what it has done so far.
NewEnv(words, tty) ==
    [words |-> words, stdin_tty |-> tty,
     appends |-> 0, faults |-> 0, sigint_at |-> 0]

\* The state the process starts in, for a command line and a file system.
Start(words, files, dev, tty) ==
    /\ opts = global_defaults
    /\ argv = <<>>
    /\ fs = files
    /\ i = 1
    /\ pc = "parse"
    /\ cx = NewCx(dev)
    /\ rd = NewRd
    /\ stop_follow = FALSE
    /\ handler = FALSE
    /\ env = NewEnv(words, tty)
    /\ unit = NoUnit

\* Batch runs: one file on any device, or several on a file or pipe.
InitBatch ==
    \E flagwords \in FlagWords, n \in 1..MaxFiles :
    \E a \in ArgLists(n), files \in FileLists(n, MaxRuns), dev \in Devices :
        /\ \A k \in 1..n : a[k] = STDIN => files[k].exists
        /\ \A k \in 1..n : a[k] = STDIN => Size(files[k].data) < MMAP_THRESHOLD
        /\ n > 1 => dev = Healthy
        /\ Start(Command(flagwords, a), FileSystem(a, files), dev, FALSE)

\* Follow runs: the files start empty, holding one line, or missing.
InitFollow ==
    \E flagwords \in FollowFlagWords, n \in 1..MaxFiles :
    \E a \in ArgLists(n), dev \in FollowDevices,
       files \in [1..n -> { NoFile, File(<<>>), File(<<R(97, 1), R(NL, 1)>>) }] :
        /\ \A k \in 1..n : a[k] = STDIN => files[k].exists
        /\ Start(Command(flagwords, a), FileSystem(a, files), dev, FALSE)

\* Runs of the other command lines: two one-line files, and standard input
\* a terminal or a file of one blank line.
InitOther ==
    \E words \in OtherCommands, dev \in Devices \cup FollowDevices,
       tty \in BOOLEAN :
        Start(words,
              [nm \in Names |->
                  IF nm = STDIN
                  THEN File(IF tty THEN <<>> ELSE <<R(NL, 1)>>)
                  ELSE File(<<R(97, nm), R(NL, 1)>>)],
              dev, tty)

Init == InitBatch \/ InitFollow \/ InitOther

\* The program's own steps.
Step ==
    \/ Main_Parse
    \/ Main_Next
    \/ Main_Exit
    \/ Text_Line
    \/ Text_EOF
    \/ Binary_Chunk
    \/ Binary_EOF
    \/ Mmap_Line
    \/ Mmap_Done
    \/ Mmap_Binary
    \/ Follow_Stop
    \/ Follow_Poll
    \/ Follow_Line
    \/ Follow_Sleep

\* What the environment does: faults, appends, the interrupt.
Environment ==
    \/ Follow_StatFails
    \/ Follow_SeekFails
    \/ Env_Append
    \/ handle_sigint

Next == Step \/ Environment

Spec == Init /\ [][Next]_vars

\* The follow runs alone.  Under -f no file is mapped: every named file
\* goes to process_follow_text and standard input to the stream reader.
StepFollow ==
    \/ Main_Parse
    \/ Main_Next
    \/ Main_Exit
    \/ Text_Line
    \/ Text_EOF
    \/ Binary_Chunk
    \/ Binary_EOF
    \/ Follow_Stop
    \/ Follow_Poll
    \/ Follow_Line
    \/ Follow_Sleep

NextFollow == StepFollow \/ Environment

SpecFollow == InitFollow /\ [][NextFollow]_vars

\* The program keeps running: it is the only thread, and each step of its
\* loops is taken when it is enabled.
FairSpecFollow == SpecFollow /\ WF_vars(StepFollow)

----------------------------------------------------------------------------
(* The readers run to completion, side by side on one file *)

\* process_text on a file holding data.
RECURSIVE run_text(_, _, _, _)
run_text(data, o, r, c) ==
    IF fgets_count(data, r.pos) = 0 THEN c
    ELSE LET t == text_step(data, o, r, c)
         IN  run_text(data, o, t.r, t.c)

\* process_binary on a file holding data.
RECURSIVE run_binary(_, _, _)
run_binary(data, r, c) ==
    IF r.pos >= Size(data) THEN c
    ELSE LET t == binary_step(data, r, c)
         IN  IF t.brk THEN t.c ELSE run_binary(data, t.r, t.c)

\* The text loop of process_file_mmap.
RECURSIVE run_mmap_text(_, _, _, _)
run_mmap_text(data, o, r, c) ==
    IF r.pos >= Size(data) THEN c
    ELSE LET t == mmap_step(data, o, r, c)
         IN  run_mmap_text(data, o, t.r, t.c)

\* process_file_mmap on a file holding data.
run_mmap(data, text_mode, o, c) ==
    IF Size(data) = 0 THEN c
    ELSE IF ~text_mode THEN mmap_binary(data, c)
    ELSE run_mmap_text(data, o, NewRd, c)

\* The stream reader as main picks it: process_text in text mode,
\* process_binary otherwise.
run_stream(data, o, c) ==
    IF use_text(o) THEN run_text(data, o, NewRd, c)
    ELSE run_binary(data, NewRd, c)

\* What a run leaves on standard output once main has flushed it.
Result(c) == [out |-> Written(stdio_flush(c.so).s), line_no |-> c.line_no]

UnitRunSet ==
    { R(NL, 1), R(NL, 2), R(97, 1), R(97, BUFSIZE),
      R(TAB, 1), R(NUL, 1), R(DEL, 1) }

RECURSIVE UnitDataOfLen(_)
UnitDataOfLen(k) ==
    IF k <= 0 THEN { <<>> }
    ELSE UNION { { Append(d, r) :
                     r \in { x \in UnitRunSet :
                               d = <<>> \/ d[Len(d)].b # x.b } } :
                 d \in UnitDataOfLen(k - 1) }

RECURSIVE UnitDatas(_)
UnitDatas(k) ==
    IF k <= 0 THEN { <<>> } ELSE UnitDataOfLen(k) \cup UnitDatas(k - 1)

\* The flag letters of the runs side by side; the follow reader's run has
\* -f with them.
UnitFlagSets ==
    { <<>>, <<"n">>, <<"b">>, <<"s">>, <<"e">>, <<"T">>, <<"v">>,
      <<"n", "s">>, <<"b", "e">>, <<"v", "T">>, <<"n", "v">>, <<"s", "e">> }

UnitFile == 1

\* The stream reader, the mapped reader and one transformer call are run on
\* unit.data with the options of the command line; then main follows the
\* file UnitFile, empty when opened, to which the environment appends
\* unit.data piece by piece.
InitUnit ==
    \E letters \in UnitFlagSets, d \in UnitDatas(MaxRuns) :
        /\ opts = parse_global_flags(<<FlagsWord(<<"f">> \o letters)>>,
                                     global_defaults).opts
        /\ unit = [NoUnit EXCEPT !.data = d]
        /\ pc = "unit_line"
        /\ argv = <<UnitFile>>
        /\ fs = [nm \in Names |-> IF nm = UnitFile THEN File(<<>>) ELSE NoFile]
        /\ i = 1
        /\ cx = NewCx(Healthy)
        /\ rd = NewRd
        /\ stop_follow = FALSE
        /\ handler = FALSE
        /\ env = NewEnv(<<FlagsWord(<<"f">> \o letters), NameWord(UnitFile)>>,
                        FALSE)

\* process_line_buffer on the data as one line buffer.
Unit_Line ==
    /\ pc = "unit_line"
    /\ unit' = [unit EXCEPT
          !.line = <<Result(process_line_buffer(unit.data, opts, cx))>>]
    /\ pc' = "unit_stream"
    /\ UNCHANGED <<opts, argv, fs, i, cx, rd, stop_follow, handler, env>>

Unit_Stream ==
    /\ pc = "unit_stream"
    /\ unit' = [unit EXCEPT
          !.stream = <<Result(run_stream(unit.data, opts, cx))>>]
    /\ pc' = "unit_mapped"
    /\ UNCHANGED <<opts, argv, fs, i, cx, rd, stop_follow, handler, env>>

Unit_Mapped ==
    /\ pc = "unit_mapped"
    /\ unit' = [unit EXCEPT
          !.mapped = <<Result(run_mmap(unit.data, use_text(opts), opts, cx))>>]
    /\ pc' = "main"
    /\ UNCHANGED <<opts, argv, fs, i, cx, rd, stop_follow, handler, env>>

\* The offsets at which the environment may end a piece of d: after each
\* run of equal bytes and one byte into it.
RECURSIVE CutPoints(_, _)
CutPoints(d, from) ==
    IF d = <<>> THEN {}
    ELSE {from + 1, from + Head(d).n} \cup CutPoints(Tail(d), from + Head(d).n)

\* The environment appends the next piece of unit.data to the followed
\* file; its last append brings the rest.
Unit_Append ==
    /\ pc \in {"follow", "drain"}
    /\ env.appends < MaxAppends
    /\ \E k \in CutPoints(unit.data, 0) :
          /\ k > Size(fs[UnitFile].data)
          /\ env.appends + 1 = MaxAppends => k = Size(unit.data)
          /\ fs' = [fs EXCEPT ![UnitFile].data = Take(unit.data, k)]
    /\ env' = [env EXCEPT !.appends = @ + 1]
    /\ UNCHANGED <<opts, argv, i, pc, cx, rd, stop_follow, handler, unit>>

NextUnit ==
    \/ Unit_Line
    \/ Unit_Stream
    \/ Unit_Mapped
    \/ Main_Next
    \/ Follow_Poll
    \/ Follow_Line
    \/ Follow_Sleep
    \/ Unit_Append
    \/ handle_sigint
    \/ Follow_Stop
    \/ Main_Exit

SpecUnit == InitUnit /\ [][NextUnit]_vars

----------------------------------------------------------------------------
(* Properties *)

limit == opts.squeeze_limit

\* How often byte c occurs in d.
RECURSIVE CountByte(_, _)
CountByte(d, c) ==
    IF d = <<>> THEN 0
    ELSE (IF Head(d).b = c THEN Head(d).n ELSE 0) + CountByte(Tail(d), c)

\* The bytes of the first k arguments' files, in argument order (a name
\* that cannot be opened has none).
RECURSIVE InputBytes(_)
InputBytes(k) ==
    IF k = 0 THEN <<>> ELSE Cat(InputBytes(k - 1), fs[argv[k]].data)

BlankCalls == { j \in DOMAIN cx.calls : cx.calls[j].blank }

\* The numbered calls among the first j.
NumberedUpTo(j) == Cardinality({ k \in 1..j : cx.calls[k].num # 0 })

\* The blank lines a file keeps when every run of blank lines is cut to at
\* most `keep`: a run of n newlines is n blank lines at the start of the
\* file and n - 1 after a line's text.
RECURSIVE KeptBlank(_, _, _)
KeptBlank(d, atStart, keep) ==
    IF d = <<>> THEN 0
    ELSE (IF Head(d).b = NL
          THEN Min(IF atStart THEN Head(d).n ELSE Head(d).n - 1, keep)
          ELSE 0)
         + KeptBlank(Tail(d), FALSE, keep)

\* No NUL byte, and no line that fgets splits.
Unsplit(d) ==
    \A j \in DOMAIN d :
        d[j].b # NUL /\ (d[j].b # NL => d[j].n < BUFSIZE - 1)

\* Four blank lines and one nonblank line.
FourBlankOneLine == <<R(NL, 4), R(97, 1), R(NL, 1)>>

\* A finished run of one file under -s through the stream or mapped reader.
SqueezedOneFile ==
    /\ pc = "exit"
    /\ opts.flag_squeeze
    /\ ~opts.flag_follow
    /\ Len(argv) = 1
    /\ fs[argv[1]].exists
    /\ \/ strategy(argv[1], fs[argv[1]], opts) = "mmap"
       \/ Unsplit(fs[argv[1]].data)

OnlySqueeze ==
    opts = [global_defaults EXCEPT !.flag_squeeze = TRUE]
    /\ ~cx.so.dev.limited

\* C1: the stream, mapped and poll-follow readers write the same bytes for
\* the same file and options.
C1_ReadersAgree ==
    (/\ pc = "exit"
     /\ fs[UnitFile].data = unit.data
     /\ rd.current_offset = Size(unit.data)) =>
        /\ unit.stream[1].out = unit.mapped[1].out
        /\ unit.mapped[1].out = Written(cx.so)

\* C2 as stated: with no transform flag set (-f or not), what reaches
\* standard output at exit is the input files' bytes in argument order.
C2_IdentityAnyMode ==
    (pc = "exit" /\ ~use_text(opts) /\ ~cx.so.dev.limited)
        => Written(cx.so) = InputBytes(Len(argv))

\* C2 amended: with no transform flag and without -f, on a standard output
\* that takes the writes, what reaches standard output at exit is exactly
\* the input files' bytes, concatenated in argument order.
C2_Identity ==
    (pc = "exit" /\ ~use_text(opts) /\ ~opts.flag_follow
     /\ ~cx.so.dev.limited)
        => Written(cx.so) = InputBytes(Len(argv))

C2_Witness ==
    /\ pc = "exit" /\ ~use_text(opts) /\ ~opts.flag_follow
    /\ ~cx.so.dev.limited
    /\ Len(argv) = 2
    /\ Size(fs[argv[1]].data) >= MMAP_THRESHOLD
    /\ fs[argv[2]].data = <<R(NUL, 1), R(NL, 1)>>
    /\ Size(Written(cx.so)) = MMAP_THRESHOLD + 2

\* C3 as stated: under -s a run of more than limit + 1 blank lines comes out
\* as limit + 1 blank lines; four blank lines and a line come out as two
\* blank lines and the line.
C3_SqueezeLimitPlusOne ==
    SqueezedOneFile =>
        /\ Cardinality(BlankCalls)
               = KeptBlank(fs[argv[1]].data, TRUE, limit + 1)
        /\ (OnlySqueeze /\ fs[argv[1]].data = FourBlankOneLine)
               => Written(cx.so) = <<R(NL, 2), R(97, 1), R(NL, 1)>>

\* C3 amended: under -s the stream and mapped readers pass on exactly
\* `limit` blank lines of every longer run of blank lines of a file (the
\* stream reader: of a file without NUL bytes whose lines fgets does not
\* split); four blank lines and a line come out as one blank line and the
\* line.
C3_SqueezeLimit ==
    SqueezedOneFile =>
        /\ Cardinality(BlankCalls) = KeptBlank(fs[argv[1]].data, TRUE, limit)
        /\ (OnlySqueeze /\ fs[argv[1]].data = FourBlankOneLine)
               => Written(cx.so) = <<R(NL, 1), R(97, 1), R(NL, 1)>>

C3_Witness ==
    /\ SqueezedOneFile
    /\ OnlySqueeze
    /\ fs[argv[1]].data = FourBlankOneLine
    /\ Len(cx.calls) = 2

\* C4: under -s standard output never holds more than squeeze_limit + 1
\* consecutive blank lines (a run of newlines is that many blank lines at
\* the start of the output, one fewer after text).
C4_BlankRunBound ==
    opts.flag_squeeze =>
        \A j \in DOMAIN Written(cx.so) :
            Written(cx.so)[j].b = NL =>
                Written(cx.so)[j].n
                    <= limit + 1 + (IF j = 1 THEN 0 ELSE 1)

\* The output of -n for count blank lines numbered from `from` on.
RECURSIVE NumberedBlanks(_, _)
NumberedBlanks(from, count) ==
    IF count <= 0 THEN <<>>
    ELSE Cat(Cat(line_format(from), <<R(NL, 1)>>),
             NumberedBlanks(from + 1, count - 1))

OnlyNumber == opts = [global_defaults EXCEPT !.flag_num = TRUE]

\* C5: the line counter starts at 1 and is never reset; a call is numbered
\* iff -n is set or -b is set and the line is not blank; the numbered calls
\* of the whole run carry 1, 2, 3, ... and the counter is one more than
\* their count; with -n the k-th transformed line carries k, across files.
C5_LineCounter ==
    /\ cx.line_no = 1 + NumberedUpTo(Len(cx.calls))
    /\ \A j \in DOMAIN cx.calls :
          /\ cx.calls[j].num # 0
                <=> (opts.flag_num \/ (opts.flag_nnb /\ ~cx.calls[j].blank))
          /\ cx.calls[j].num # 0 => cx.calls[j].num = NumberedUpTo(j)
          /\ opts.flag_num => cx.calls[j].num = j
    /\ (/\ pc = "exit"
        /\ OnlyNumber
        /\ ~cx.so.dev.limited
        /\ \A k \in DOMAIN argv :
              /\ fs[argv[k]].exists
              /\ Len(fs[argv[k]].data) = 1
              /\ fs[argv[k]].data[1].b = NL)
            => Written(cx.so)
                   = NumberedBlanks(1, Size(InputBytes(Len(argv))))

C5_Witness ==
    /\ pc = "exit"
    /\ OnlyNumber
    /\ Len(argv) = 2
    /\ fs[argv[1]].data = <<R(NL, 2)>>
    /\ fs[argv[2]].data = <<R(NL, 2), R(97, 1)>>
    /\ Len(cx.calls) = 5
    /\ cx.calls[3].file = 2 /\ cx.calls[3].num = 3
    /\ cx.calls[5].file = 2 /\ cx.calls[5].num = 5

\* C6: in follow mode (no transform flag), whenever the loop is back at its
\* poll, standard output holds exactly the bytes appended since the start
\* offset, up to the cursor: each once, in file order.
C6_AppendedEmittedAtPoll ==
    (pc = "follow" /\ i = 1 /\ ~use_text(opts))
        => Written(cx.so)
               = Take(Drop(fs[argv[1]].data, rd.start_offset),
                      rd.current_offset - rd.start_offset)

InLoop == pc \in {"follow", "drain"}

LastLog(c) == c.errs[Len(c.errs)].msg

Logged(c1, c2, msg) ==
    Len(c2.errs) = Len(c1.errs) + 1 /\ LastLog(c2) = msg

Flushed == cx.so.sent = Size(cx.so.data)

\* C7 as stated: the follow loop is left only when cancellation has been
\* observed.
C7_LeavesOnlyOnCancel ==
    [][(InLoop /\ ~InLoop') => stop_follow]_vars

\* C7 amended: the follow loop is left only when cancellation has been
\* observed or the fseek to the cursor failed (logged); a failed stat is
\* logged and the loop polls again; once cancellation is requested the
\* program reaches its exit with standard output flushed.
C7_FollowLoop ==
    /\ [][(InLoop /\ ~InLoop')
            => (stop_follow
                \/ Logged(cx, cx', "fseek failed in follow mode"))]_vars
    /\ [][Logged(cx, cx', "stat failed in follow mode")
            => (pc = "follow" /\ pc' = "follow" /\ i' = i)]_vars
    /\ (stop_follow ~> (pc = "exit" /\ Flushed /\ cx.status = EXIT_SUCCESS))

C7_Witness ==
    /\ pc = "exit"
    /\ stop_follow
    /\ Flushed
    /\ Size(Written(cx.so)) > 0
    /\ \E j \in DOMAIN cx.errs : cx.errs[j].msg = "stat failed in follow mode"

WriteFailLogs ==
    { j \in DOMAIN cx.errs :
        cx.errs[j].msg \in { "fwrite failed in fast path",
                             "fwrite failed in process_binary",
                             "fwrite failed in mmap binary mode" } }

\* C8: every failed write to standard output is logged, and after a logged
\* failure no further line of that file is transformed.
C8_WriteFailureAbandonsFile ==
    /\ Cardinality(WriteFailLogs) = cx.wfail
    /\ \A j \in WriteFailLogs : \A k \in DOMAIN cx.calls :
          k > cx.errs[j].at => cx.calls[k].file # cx.errs[j].file

\* C9: with -v and without -T (and no numbering), every TAB of the line
\* is written as a raw TAB, none as ^I.
C9_TabRawUnderV ==
    (unit.line # <<>> /\ opts.flag_nonprinting /\ ~opts.flag_tabs
     /\ ~opts.flag_num /\ ~opts.flag_nnb)
        => /\ CountByte(unit.line[1].out, TAB) = CountByte(unit.data, TAB)
           /\ CountByte(unit.line[1].out, LETTER_I) = 0

\* main hands the j-th file to process_follow_text.
Followed(j) == opts.flag_follow /\ argv[j] # STDIN

\* The fopen of the j-th file succeeds.
Opened(j) == fs[argv[j]].exists

FseekFailed(j) ==
    \E e \in DOMAIN cx.errs :
        cx.errs[e].file = j /\ cx.errs[e].msg = "fseek failed in follow mode"

\* C10 as stated: the loop of a followed file is entered only once the loop
\* of the followed file before it has observed cancellation.
C10_NextLoopOnlyAfterCancel ==
    (pc = "drain" /\ i > 1 /\ Followed(i - 1) /\ Opened(i - 1))
        => stop_follow

\* File j was opened and could not be positioned at its end: one of the two
\* initial diagnostics is on standard error for it.
PositionFailed(j) ==
    \E e \in DOMAIN cx.errs :
        cx.errs[e].file = j /\ cx.errs[e].msg \in InitialFaults

\* C10 amended: the loop of a followed file is entered only after
\* process_follow_text has returned for every file before it, which for an
\* opened file means that its initial fseek or ftell failed (logged, its
\* loop never entered, none of its lines transformed), that its loop observed
\* cancellation, or that the loop's fseek to the cursor failed (logged); and
\* once stop_follow is set, no follow-mode file after the one main was at
\* when the interrupt arrived has any line transformed.
C10_OneAtATime ==
    /\ pc = "drain" =>
          /\ ~PositionFailed(i)
          /\ \A j \in 1..(i - 1) :
                (Followed(j) /\ Opened(j))
                    => (stop_follow \/ FseekFailed(j) \/ PositionFailed(j))
    /\ \A j \in DOMAIN argv :
          PositionFailed(j)
              => /\ Followed(j) /\ Opened(j)
                 /\ ~FseekFailed(j)
                 /\ \A k \in DOMAIN cx.calls : cx.calls[k].file # j
    /\ stop_follow =>
          \A k \in DOMAIN cx.calls :
              cx.calls[k].file > env.sigint_at
                  => argv[cx.calls[k].file] = STDIN

C10_Witness ==
    /\ pc = "exit"
    /\ stop_follow
    /\ env.sigint_at = 1
    /\ Len(argv) = 2
    /\ Followed(1) /\ Opened(1)
    /\ Followed(2) /\ Opened(2)
    /\ Len(cx.calls) > 0
    /\ fs[argv[2]].data \notin { <<>>, <<R(97, 1), R(NL, 1)>> }

====
